---- MODULE Spec2Model ----
(***************************************************************************)
(* bloom-be: the conversation / message store and the send-chat and        *)
(* delete request handlers of pkg/handler, as a state machine.             *)
(*                                                                         *)
(* The store is the two tables of pkg/app/db.go.  Every database round     *)
(* trip of a handler is one atomic step; a request runs on its own         *)
(* goroutine, so steps of different requests interleave.  Statements of a  *)
(* sql.Tx stay invisible to other requests until Commit and lock the rows  *)
(* they delete (PostgreSQL READ COMMITTED).                                *)
(***************************************************************************)
EXTENDS Integers, Sequences, FiniteSets, TLC

\* ------------------------------------------------------------------ bounds
MaxId == 2
MaxMsgs == 4
MaxExchanges == 4
MaxClock == 1

\* ------------------------------------------------------- program constants
defaultModel == "Meta-Llama-3-1-8B-Instruct-FP8"
DefaultName == "New Conversation"
SummarizeLen == 3
Null == "NULL"
NoId == 0

\* ------------------------------------------------------------ input sets
Procs == {"p1", "p2"}
Users == {"alice", "bob"}
Models == {"", "m2"}
ConvIds == 1..MaxId
GivenIds == {1, 2}
RaceIds == {1}
RaceUser == "alice"
OkOnly == {"ok"}
NoLag == {0}
DbOutcomes == {"ok", "err"}
TxOutcomes == {"ok", "err", "panic"}
UpstreamFailures == {"transportErr", "readErr", "indentErr", "unmarshalErr"}
UpstreamOutcomes == {"ok", "noChoices"} \cup UpstreamFailures
UserContent == "hi"
ReplyContent == "re"
SummaryContent == "title"
Names == {"", "renamed"}

VARIABLES conversations, messages, msgSeq, now, proc, calls

vars == <<conversations, messages, msgSeq, now, proc, calls>>
store == <<conversations, messages>>

\* ------------------------------------------------------------- the store
\* conversations(id PRIMARY KEY, model, conversation_name, user_id), with the
\* columns the handlers' queries name; created_at is written once and read by
\* no query, so it is left out.
ConvRow(id, model, name, user) ==
    [id |-> id, model |-> model, conversation_name |-> name, user_id |-> user]

ConvExists(id) == \E c \in conversations : c.id = id

ConvIdsOf(rows) == {c.id : c \in rows}

\* messages(id SERIAL, conversation_id REFERENCES conversations(id) ON DELETE
\* CASCADE, role, content, timestamp).
MsgRow(id, conv, role, content, ts) ==
    [id |-> id, conversation_id |-> conv, role |-> role, content |-> content,
     timestamp |-> ts]

MsgsOf(conv) == {m \in messages : m.conversation_id = conv}

\* Rows deleted by a transaction that has not ended yet are locked: a statement
\* of another request that touches them waits for that transaction.
LockedConvs(p) == UNION {proc[q].delConvs : q \in Procs \ {p}}

LockedMsgs(p) == UNION {proc[q].delMsgs : q \in Procs \ {p}}

\* SELECT COUNT(*) FROM conversations in place of the highest id.
MostRecentIDByCount == Cardinality(conversations)

\* SELECT id FROM conversations ORDER BY id DESC LIMIT 1, zero on sql.ErrNoRows.
MostRecentID ==
    IF conversations = {} THEN 0
    ELSE CHOOSE i \in ConvIdsOf(conversations) : \A j \in ConvIdsOf(conversations) : j <= i

\* The timestamp column is a VARCHAR: the int64 a handler passes is stored as
\* its decimal text, here the sequence of its digits.
RECURSIVE Itoa(_)
Itoa(n) == IF n < 10 THEN <<n>> ELSE Append(Itoa(n \div 10), n % 10)

\* The order of two texts, character by character, a prefix coming first.
RECURSIVE TextLeq(_, _)
TextLeq(a, b) ==
    IF a = <<>> THEN TRUE
    ELSE IF b = <<>> THEN FALSE
    ELSE IF a[1] # b[1] THEN a[1] < b[1]
    ELSE TextLeq(Tail(a), Tail(b))

TimestampNumericLeq(x, y) == x.timestamp <= y.timestamp

\* The comparison of ORDER BY timestamp ASC on two rows.
TimestampLeq(x, y) == TextLeq(Itoa(x.timestamp), Itoa(y.timestamp))

\* ORDER BY timestamp ASC: every order of the rows that is non-decreasing in
\* the timestamp column; rows with equal timestamps come in any order.
RECURSIVE OrderByTimestamp(_)
OrderByTimestamp(rows) ==
    IF rows = {} THEN {<<>>}
    ELSE UNION {{<<m>> \o s : s \in OrderByTimestamp(rows \ {m})} :
                m \in {x \in rows : \A y \in rows : TimestampLeq(x, y)}}

RoleContent(m) == [role |-> m.role, content |-> m.content]

\* SELECT role, content ... ORDER BY timestamp ASC: the role/content lists of
\* the orders above.  Rows equal in role, content and timestamp give the same
\* lists whichever comes first, so one of them (the lowest id) stands for all.
RECURSIVE SelectRoleContent(_)
SelectRoleContent(rows) ==
    IF rows = {} THEN {<<>>}
    ELSE LET first == {x \in rows : \A y \in rows : TimestampLeq(x, y)}
             reps == {x \in first : \A y \in first :
                        RoleContent(y) = RoleContent(x) => x.id <= y.id}
         IN UNION {{<<RoleContent(m)>> \o s : s \in SelectRoleContent(rows \ {m})} :
                   m \in reps}

\* --------------------------------------------------------- request state
NoCalls == [completion |-> 0, summarize |-> 0]

\* The zero CompletionResponse, which goes with every error.
NoResponse ==
    [Success |-> FALSE, Content |-> "", Role |-> "", ConversationID |-> NoId,
     ConversationName |-> ""]

IdleProc ==
    [pc |-> "idle", op |-> "none", wrote |-> {},
     conversationID |-> NoId, synthesized |-> FALSE, model |-> "", userID |-> "",
     conflict |-> FALSE, found |-> FALSE, oldMsgs |-> <<>>,
     completionResponse |-> [Choices |-> <<>>, Created |-> 0],
     summarizeResponse |-> [Choices |-> <<>>, Created |-> 0],
     err |-> "nil", rowsAffected |-> 0, panicking |-> FALSE,
     tx |-> FALSE, delMsgs |-> {}, delConvs |-> {}, txEnd |-> "none",
     removed |-> [convs |-> {}, msgs |-> {}],
     ret |-> "none", msg |-> "", cause |-> "", response |-> NoResponse,
     status |-> 0, path |-> NoId, rows |-> {}, list |-> <<>>, newName |-> "",
     log |-> <<>>]

Init ==
    /\ conversations = {}
    /\ messages = {}
    /\ msgSeq = 0
    /\ now = 0
    /\ proc = [p \in Procs |-> IdleProc]
    /\ calls = [c \in ConvIds |-> NoCalls]

\* The upstream calls issued for a conversation since its row was last deleted.
Called(id, kind) == [calls EXCEPT ![id][kind] = @ + 1]

Free(p) == proc[p].pc \in {"idle", "done"}

Set(p, r) == proc' = [proc EXCEPT ![p] = r]

Logged(p, step, ok) == Append(proc[p].log, [step |-> step, ok |-> ok])

\* A failure that is recorded while the request stays at the step that failed.
FailAndRetry(p, step, m, cause) ==
    [proc[p] EXCEPT !.msg = m, !.cause = cause, !.log = Logged(p, step, FALSE)]

\* handleError[CompletionResponse](msg, err): the request ends with an error
\* that wraps err, the cause.
Fail(p, step, m, cause) ==
    [proc[p] EXCEPT !.pc = "done", !.ret = "error", !.msg = m, !.cause = cause,
                    !.log = Logged(p, step, FALSE)]

\* An unrecovered panic unwinds the handler: the client gets no response.
Panic(p, step) ==
    [proc[p] EXCEPT !.pc = "done", !.ret = "panic", !.cause = "index out of range",
                    !.log = Logged(p, step, FALSE)]

\* ------------------------------------------------------------ send-chat
\* The steps of doCompletions, in the order of its statements; log holds the
\* ones a request has taken.
SendOrder ==
    <<"ensureConversation", "getOldMessages", "setMessages.user",
      "upstream.completion", "setMessages.reply", "upstream.summarize", "insertName">>

\* Handler.Completions: bind the body, read the user-id header, default the
\* model, and either take the caller's conversation id or go and synthesize one.
NewRequest(p, op, id, model, user) ==
    [IdleProc EXCEPT !.pc = op, !.op = op,
                     !.conversationID = id, !.userID = user,
                     !.model = IF model = "" THEN defaultModel ELSE model]

\* A request starts while the messages it and the requests in flight may write
\* stay within maxMsgs.
InFlight == Cardinality({q \in Procs : proc[q].op = "send" /\ proc[q].pc # "done"})

StartSend(p, ids, models, users, maxMsgs) ==
    /\ Free(p)
    /\ msgSeq + 2 * (InFlight + 1) <= maxMsgs
    /\ \E id \in ids, m \in models, u \in users :
         Set(p, [NewRequest(p, "send", id, m, u) EXCEPT
                   !.pc = IF id = NoId THEN "getMostRecent" ELSE "ensureSelect"])
    /\ UNCHANGED <<conversations, messages, msgSeq, now, calls>>

\* req.ConversationID = strconv.Itoa(id + 1)
GetMostRecent(p, F) ==
    /\ proc[p].pc = "getMostRecent"
    /\ MostRecentID < MaxId
    /\ \E o \in F :
         Set(p, IF o = "err"
                THEN [Fail(p, "getMostRecentConversationID",
                           "could not fetch the most recent conversation ID", "storage")
                        EXCEPT !.log = proc[p].log]
                ELSE [proc[p] EXCEPT !.pc = "ensureSelect",
                                     !.synthesized = TRUE,
                                     !.conversationID = MostRecentID + 1])
    /\ UNCHANGED <<conversations, messages, msgSeq, now, calls>>

EnsureExistsNever(id) == FALSE

\* ensureConversation, first query: SELECT EXISTS(... WHERE id = $1).
EnsureExists(id) == ConvExists(id)

EnsureSelect(p, F) ==
    /\ proc[p].pc = "ensureSelect"
    /\ \E o \in F :
         Set(p, IF o = "err"
                THEN Fail(p, "ensureConversation", "Error ensuring conversation:",
                          "storage")
                ELSE IF EnsureExists(proc[p].conversationID)
                THEN [proc[p] EXCEPT !.pc = "getOldMessages",
                                     !.log = Logged(p, "ensureConversation", TRUE)]
                ELSE [proc[p] EXCEPT !.pc = "ensureInsert"])
    /\ UNCHANGED <<conversations, messages, msgSeq, now, calls>>

\* INSERT ... ON CONFLICT(id) DO NOTHING RETURNING id: the rows after the
\* statement, and the rows it returns (none when the id is taken).
InsertOnConflictDoNothing(row) ==
    IF ConvExists(row.id) THEN conversations ELSE conversations \cup {row}

InsertReturning(row) == IF ConvExists(row.id) THEN {} ELSE {row.id}

\* ensureConversation, second query.  QueryRow(...).Scan on an empty result is
\* sql.ErrNoRows, which takes the err != nil return.
EnsureInsert(p, F) ==
    /\ proc[p].pc = "ensureInsert"
    /\ proc[p].conversationID \notin LockedConvs(p)
    /\ LET row == ConvRow(proc[p].conversationID, proc[p].model, DefaultName,
                          proc[p].userID)
       IN \E o \in F :
            IF o = "err"
            THEN /\ Set(p, Fail(p, "ensureConversation", "Error ensuring conversation:",
                                "storage"))
                 /\ UNCHANGED conversations
            ELSE /\ conversations' = InsertOnConflictDoNothing(row)
                 /\ Set(p, [IF InsertReturning(row) = {}
                            THEN Fail(p, "ensureConversation",
                                      "Error ensuring conversation:", "sql.ErrNoRows")
                            ELSE [proc[p] EXCEPT !.pc = "getOldMessages",
                                     !.log = Logged(p, "ensureConversation", TRUE)]
                              EXCEPT !.conflict = ConvExists(row.id)])
    /\ UNCHANGED <<messages, msgSeq, now, calls>>

\* getOldMessages, then the append of the user turn to the in-memory list.
GetOldMessages(p, F) ==
    /\ proc[p].pc = "getOldMessages"
    /\ \E o \in F :
         IF o = "err"
         THEN Set(p, Fail(p, "getOldMessages", "Error getting old messages:", "storage"))
         ELSE \E s \in SelectRoleContent(MsgsOf(proc[p].conversationID)) :
                Set(p, [proc[p] EXCEPT
                          !.pc = "setUserMessage",
                          !.oldMsgs = Append(s,
                                             [role |-> "user", content |-> UserContent]),
                          !.log = Logged(p, "getOldMessages", TRUE)])
    /\ UNCHANGED <<conversations, messages, msgSeq, now, calls>>

\* A messages table whose conversation_id column has no REFERENCES clause.
ForeignKeyUnchecked(conv) == TRUE

\* Handler.setMessages: one INSERT INTO messages.  The foreign key makes the
\* insert fail when the conversation row is gone.
ForeignKeyHolds(conv) == ConvExists(conv)

InsertMessageLost(conv, role, content, ts) == messages

InsertMessage(conv, role, content, ts) ==
    messages \cup {MsgRow(msgSeq + 1, conv, role, content, ts)}

\* The error setMessages returns, and the rows it leaves.
SetMessagesErr(o, conv) ==
    IF o = "err" THEN "storage"
    ELSE IF ~ForeignKeyHolds(conv) THEN "foreign key"
    ELSE "nil"

SetMessages(o, conv, role, content, ts) ==
    IF SetMessagesErr(o, conv) = "nil" THEN InsertMessage(conv, role, content, ts)
    ELSE messages

InsertNeverFailed(err) == FALSE

\* if err != nil { return handleError(...) } after setMessages
InsertFailed(err) == err # "nil"

\* The ids of the rows a request has inserted into messages.
Wrote(p, err) == IF err = "nil" THEN proc[p].wrote \cup {msgSeq + 1} ELSE proc[p].wrote

SetUserMessage(p, F) ==
    /\ proc[p].pc = "setUserMessage"
    /\ proc[p].conversationID \notin LockedConvs(p)
    /\ \E o \in F :
         LET err == SetMessagesErr(o, proc[p].conversationID)
         IN /\ messages' = SetMessages(o, proc[p].conversationID, "user", UserContent,
                                       now)
            /\ msgSeq' = IF err = "nil" THEN msgSeq + 1 ELSE msgSeq
            /\ Set(p, IF InsertFailed(err)
                      THEN Fail(p, "setMessages.user", "Error inserting message into DB:",
                                err)
                      ELSE [proc[p] EXCEPT !.pc = "callCompletion",
                                           !.wrote = Wrote(p, err),
                                           !.log = Logged(p, "setMessages.user", TRUE)])
    /\ UNCHANGED <<conversations, now, calls>>

UpstreamErrorMsg(o) ==
    CASE o = "transportErr" -> "Error making API request:"
      [] o = "readErr" -> "Error reading response body:"
      [] o = "indentErr" -> "Error indenting JSON:"
      [] OTHER -> "Error unmarshaling JSON:"

\* What json.Unmarshal leaves in an AkashCompletionResponse.
Parsed(o, content, created) ==
    [Choices |-> IF o = "ok"
                 THEN <<[Role |-> "assistant", Content |-> content]>>
                 ELSE <<>>,
     Created |-> created]

\* The "created" of a reply is the upstream's clock, which is this one's or
\* behind it by one of lags.
Created(lags) == {now - d : d \in {l \in lags : l <= now}}

\* The completion call, client.Do to json.Unmarshal, then Choices[0].
CallCompletion(p, U, lags) ==
    /\ proc[p].pc = "callCompletion"
    /\ calls' = Called(proc[p].conversationID, "completion")
    /\ \E o \in U, t \in Created(lags) :
         Set(p, IF o \in UpstreamFailures
                THEN Fail(p, "upstream.completion", UpstreamErrorMsg(o), o)
                ELSE IF Parsed(o, ReplyContent, t).Choices = <<>>
                THEN [Panic(p, "upstream.completion") EXCEPT
                        !.completionResponse = Parsed(o, ReplyContent, t)]
                ELSE [proc[p] EXCEPT
                        !.pc = "setReplyMessage",
                        !.completionResponse = Parsed(o, ReplyContent, t),
                        !.log = Logged(p, "upstream.completion", TRUE)])
    /\ UNCHANGED <<conversations, messages, msgSeq, now>>

SummaryDueAtFirst(oldMsgs) == Len(oldMsgs) = 1

SummaryDueFromThree(oldMsgs) == Len(oldMsgs) >= SummarizeLen

\* len(oldMsgs) == 3
SummaryDue(oldMsgs) == Len(oldMsgs) = SummarizeLen

Succeed(p, step) ==
    [proc[p] EXCEPT !.pc = "done", !.ret = "ok",
                    !.msg = "Successfully completed the request.",
                    !.response =
                      [Success |-> TRUE,
                       Content |-> proc[p].completionResponse.Choices[1].Content,
                       Role |-> proc[p].completionResponse.Choices[1].Role,
                       ConversationID |-> proc[p].conversationID,
                       ConversationName |->
                         IF step = "insertName"
                         THEN proc[p].summarizeResponse.Choices[1].Content
                         ELSE ""],
                    !.log = Logged(p, step, TRUE)]

SetReplyMessage(p, F) ==
    /\ proc[p].pc = "setReplyMessage"
    /\ proc[p].conversationID \notin LockedConvs(p)
    /\ LET reply == proc[p].completionResponse.Choices[1]
       IN \E o \in F :
            LET err == SetMessagesErr(o, proc[p].conversationID)
            IN /\ messages' = SetMessages(o, proc[p].conversationID, reply.Role,
                                          reply.Content,
                                          proc[p].completionResponse.Created)
               /\ msgSeq' = IF err = "nil" THEN msgSeq + 1 ELSE msgSeq
               /\ Set(p, IF InsertFailed(err)
                         THEN Fail(p, "setMessages.reply",
                                   "Error inserting completion message into DB:", err)
                         ELSE [IF SummaryDue(proc[p].oldMsgs)
                               THEN [proc[p] EXCEPT !.pc = "callSummarize",
                                        !.log = Logged(p, "setMessages.reply", TRUE)]
                               ELSE Succeed(p, "setMessages.reply")
                                 EXCEPT !.wrote = Wrote(p, err)])
    /\ UNCHANGED <<conversations, now, calls>>

\* The summarization call of the len(oldMsgs) == 3 branch.
CallSummarize(p, U, lags) ==
    /\ proc[p].pc = "callSummarize"
    /\ calls' = Called(proc[p].conversationID, "summarize")
    /\ \E o \in U, t \in Created(lags) :
         Set(p, IF o \in UpstreamFailures
                THEN Fail(p, "upstream.summarize", UpstreamErrorMsg(o), o)
                ELSE IF Parsed(o, SummaryContent, t).Choices = <<>>
                THEN [Panic(p, "upstream.summarize") EXCEPT
                        !.summarizeResponse = Parsed(o, SummaryContent, t)]
                ELSE [proc[p] EXCEPT
                        !.pc = "insertNameSelect",
                        !.summarizeResponse = Parsed(o, SummaryContent, t),
                        !.log = Logged(p, "upstream.summarize", TRUE)])
    /\ UNCHANGED <<conversations, messages, msgSeq, now>>

\* insertName, first query: SELECT id FROM conversations WHERE id = $1.
InsertNameSelect(p, F) ==
    /\ proc[p].pc = "insertNameSelect"
    /\ \E o \in F :
         Set(p, IF o = "err"
                THEN Fail(p, "insertName", "Error insert name:", "storage")
                ELSE [proc[p] EXCEPT !.pc = "insertNameWrite",
                                     !.found = ConvExists(proc[p].conversationID)])
    /\ UNCHANGED <<conversations, messages, msgSeq, now, calls>>

\* UPDATE conversations SET conversation_name = $1 WHERE id = $2
UpdateName(id, name) ==
    {IF c.id = id THEN [c EXCEPT !.conversation_name = name] ELSE c : c \in conversations}

\* insertName, second query.  After sql.ErrNoRows: INSERT INTO conversations
\* (id, conversation_name), a duplicate key being an error.  After a row was
\* found: the UPDATE, which succeeds on no row too.
InsertNameWrite(p, F) ==
    /\ proc[p].pc = "insertNameWrite"
    /\ proc[p].conversationID \notin LockedConvs(p)
    /\ LET id == proc[p].conversationID
           name == proc[p].summarizeResponse.Choices[1].Content
       IN \E o \in F :
            IF o = "err" \/ (~proc[p].found /\ ConvExists(id))
            THEN /\ Set(p, Fail(p, "insertName", "Error insert name:",
                                IF o = "err" THEN "storage" ELSE "duplicate key"))
                 /\ UNCHANGED conversations
            ELSE /\ conversations' = IF proc[p].found THEN UpdateName(id, name)
                                     ELSE conversations \cup {ConvRow(id, Null, name, Null)}
                 /\ Set(p, Succeed(p, "insertName"))
    /\ UNCHANGED <<messages, msgSeq, now, calls>>

\* time.Now().Unix() moves on between requests and steps.
Tick ==
    /\ now < MaxClock
    /\ now' = now + 1
    /\ UNCHANGED <<conversations, messages, msgSeq, proc, calls>>

\* ---------------------------------------------------------------- delete
\* Handler.DeleteChatById, Handler.DeleteAllChat: the path parameter or the
\* caller's user id, then the transactional delete.
StartDelete(p, ids) ==
    /\ Free(p)
    /\ \E id \in ids : Set(p, [NewRequest(p, "delete", id, "", "") EXCEPT !.pc = "begin"])
    /\ UNCHANGED <<conversations, messages, msgSeq, now, calls>>

StartDeleteAll(p, users) ==
    /\ Free(p)
    /\ \E u \in users :
         Set(p, [NewRequest(p, "deleteAll", NoId, "", u) EXCEPT !.pc = "begin"])
    /\ UNCHANGED <<conversations, messages, msgSeq, now, calls>>

\* tx, err := h.db.Begin(); the deferred function is registered after it.
Begin(p, F) ==
    /\ proc[p].pc = "begin"
    /\ \E o \in F :
         Set(p, IF o = "err"
                THEN [proc[p] EXCEPT !.pc = "done", !.ret = "error",
                                     !.err = "could not begin transaction",
                                     !.msg = "could not begin transaction",
                                     !.cause = "storage"]
                ELSE [proc[p] EXCEPT !.pc = "delMessages", !.tx = TRUE])
    /\ UNCHANGED <<conversations, messages, msgSeq, now, calls>>

\* The conversation delete of delete-all without its WHERE clause.
ConvTargetsAnyOwner(p) ==
    {c \in conversations :
       proc[p].op = "delete" => c.id = proc[p].conversationID}

\* WHERE id = $1, or WHERE user_id = $1
ConvTargets(p) ==
    {c \in conversations :
       IF proc[p].op = "delete" THEN c.id = proc[p].conversationID
       ELSE c.user_id = proc[p].userID}

\* WHERE conversation_id = $1, or WHERE conversation_id IN (SELECT id ...)
MsgTargets(p) ==
    {m \in messages :
       IF proc[p].op = "delete" THEN m.conversation_id = proc[p].conversationID
       ELSE m.conversation_id \in ConvIdsOf(ConvTargets(p))}

\* ON DELETE CASCADE: the messages that go with the deleted conversation rows.
Cascade(rows) == {m \in messages : m.conversation_id \in ConvIdsOf(rows)}

MsgIds(rows) == {m.id : m \in rows}

\* The rows a statement of the transaction marks deleted; they leave the store
\* at Commit.
TxDeleteMessages(p) == proc[p].delMsgs \cup MsgIds(MsgTargets(p))

TxVisibleAtOnce(rows, deleted) == rows \ deleted

\* What the other requests see of a table after a statement of an open
\* transaction deleted some of its rows: all of it, until Commit.
TxVisible(rows, deleted) == rows

\* _, err = tx.Exec("DELETE FROM messages ...")
DelMessages(p, T) ==
    /\ proc[p].pc = "delMessages"
    /\ MsgIds(MsgTargets(p)) \cap LockedMsgs(p) = {}
    /\ \E o \in T :
         /\ messages' = IF o = "ok" THEN TxVisible(messages, MsgTargets(p)) ELSE messages
         /\ Set(p, CASE o = "err" ->
                       [proc[p] EXCEPT !.pc = "deferred", !.ret = "error",
                                       !.err = "could not delete messages",
                                       !.msg = "could not delete messages",
                                       !.cause = "storage"]
                  [] o = "panic" ->
                       [proc[p] EXCEPT !.pc = "deferred", !.panicking = TRUE]
                  [] OTHER ->
                       [proc[p] EXCEPT !.pc = "delConversations",
                                       !.delMsgs = TxDeleteMessages(p)])
    /\ UNCHANGED <<conversations, msgSeq, now, calls>>

\* The value of the local variable err when the function returns after the
\* conversation delete: result.RowsAffected() has just set it, and the
\* rowsAffected == 0 return does not assign it.
LocalErr(o, rowsAffected) ==
    CASE o = "err" -> "could not delete conversation"
      [] o = "rowsErr" -> "could not check rows affected"
      [] OTHER -> "nil"

ReturnedErrNotZeroRows(o, rowsAffected) ==
    CASE o = "err" -> "could not delete conversation"
      [] o = "rowsErr" -> "could not check rows affected"
      [] OTHER -> "nil"

\* The error the function returns after the conversation delete.
ReturnedErr(o, rowsAffected) ==
    CASE o = "err" -> "could not delete conversation"
      [] o = "rowsErr" -> "could not check rows affected"
      [] rowsAffected = 0 -> "not found"
      [] OTHER -> "nil"

\* result, err := tx.Exec("DELETE FROM conversations ..."), RowsAffected and
\* the return statement.
DelConversations(p, T) ==
    /\ proc[p].pc = "delConversations"
    /\ ConvIdsOf(ConvTargets(p)) \cap LockedConvs(p) = {}
    /\ MsgIds(Cascade(ConvTargets(p))) \cap LockedMsgs(p) = {}
    /\ \E o \in T \cup {"rowsErr"} :
         LET n == Cardinality(ConvTargets(p))
             done == o \in {"ok", "rowsErr"}
         IN Set(p, IF o = "panic"
                   THEN [proc[p] EXCEPT !.pc = "deferred", !.panicking = TRUE]
                   ELSE [proc[p] EXCEPT
                           !.pc = "deferred",
                           !.delConvs = IF done THEN ConvIdsOf(ConvTargets(p)) ELSE {},
                           !.delMsgs = IF done
                                       THEN @ \cup MsgIds(Cascade(ConvTargets(p)))
                                       ELSE @,
                           !.rowsAffected = IF o = "ok" THEN n ELSE 0,
                           !.err = LocalErr(o, n),
                           !.msg = ReturnedErr(o, n),
                           !.cause = IF o \in {"err", "rowsErr"} THEN "storage" ELSE "",
                           !.ret = IF ReturnedErr(o, n) = "nil" THEN "ok" ELSE "error"])
    /\ UNCHANGED <<conversations, messages, msgSeq, now, calls>>

DeferredEndCommits(panicking, err) == "commit"

\* The deferred function's choice: Rollback on a panic or when err is set,
\* Commit otherwise.
DeferredEnd(panicking, err) ==
    IF panicking \/ err # "nil" THEN "rollback" ELSE "commit"

\* The deferred function.  It assigns the local err, which the caller never
\* sees: the results were fixed by the return statement.
Deferred(p, F) ==
    /\ proc[p].pc = "deferred"
    /\ LET end == DeferredEnd(proc[p].panicking, proc[p].err)
       IN \E o \in F :
            /\ IF end = "commit" /\ o = "ok"
               THEN /\ conversations' = {c \in conversations : c.id \notin proc[p].delConvs}
                    /\ messages' = {m \in messages : m.id \notin proc[p].delMsgs}
                    /\ calls' = [c \in ConvIds |->
                                   IF c \in proc[p].delConvs THEN NoCalls ELSE calls[c]]
               ELSE UNCHANGED <<conversations, messages, calls>>
            /\ Set(p, [proc[p] EXCEPT
                         !.pc = "done", !.tx = FALSE, !.delMsgs = {}, !.delConvs = {},
                         !.removed = IF end = "commit" /\ o = "ok"
                                     THEN [convs |-> proc[p].delConvs,
                                           msgs |-> proc[p].delMsgs]
                                     ELSE @,
                         !.txEnd = IF end = "commit" /\ o = "err" THEN "commitFailed"
                                   ELSE end,
                         !.err = IF o = "err" THEN "transaction end failed" ELSE "nil",
                         !.ret = IF proc[p].panicking THEN "panic" ELSE @])
    /\ UNCHANGED <<msgSeq, now>>

\* ----------------------------------------------------------------- reads
\* What a handler answers: c.JSON(http.StatusOK, res), or handleError with the
\* status of the gerr.Error it is given.
Answer(p, op, id, user, status, m) ==
    [NewRequest(p, op, id, "", user) EXCEPT
       !.pc = "done", !.status = status, !.msg = m,
       !.ret = IF status = 200 THEN "ok" ELSE "error"]

\* database/sql cannot Scan a NULL column into a string.
Scannable(c) == c.model # Null /\ c.user_id # Null /\ c.conversation_name # Null

\* doGetChatByID: the error it returns, "nil" when it found the row.
GetChatByIDErr(o, id) ==
    IF o = "err" THEN "could not fetch conversation"
    ELSE IF ~ConvExists(id) THEN "conversation not found"
    ELSE IF ~Scannable(CHOOSE c \in conversations : c.id = id)
    THEN "could not fetch conversation"
    ELSE "nil"

\* Handler.GetChatById: every error of doGetChatByID goes out as gerr.E(500, ...).
GetChatByIdStatus(err) == IF err = "nil" THEN 200 ELSE 500

GetChatById(p, ids, F) ==
    /\ Free(p)
    /\ \E id \in ids, o \in F :
         LET err == GetChatByIDErr(o, id)
         IN Set(p, [Answer(p, "getChat", id, "", GetChatByIdStatus(err), err) EXCEPT
                      !.path = id,
                      !.rows = IF err = "nil"
                               THEN {c \in conversations : c.id = id} ELSE {}])
    /\ UNCHANGED <<conversations, messages, msgSeq, now, calls>>

\* A listing that leaves the WHERE clause out.
ListAll(user) == conversations

\* SELECT ... FROM conversations WHERE user_id = $1
ListByOwner(user) == {c \in conversations : c.user_id = user}

\* Handler.GetAllChat and doGetAllChat: the owner is the user-id header; with
\* no row the answer is still a 200, its success flag false.
GetAllChat(p, users, F) ==
    /\ Free(p)
    /\ \E u \in users, o \in F :
         Set(p, IF o = "err"
                THEN Answer(p, "getAllChat", NoId, u, 500, "error querying conversations")
                ELSE [Answer(p, "getAllChat", NoId, u, 200,
                             IF ListByOwner(u) = {} THEN "Conversations not found"
                             ELSE "Conversations found")
                        EXCEPT !.rows = ListByOwner(u),
                               !.response = [NoResponse EXCEPT
                                               !.Success = ListByOwner(u) # {}]])
    /\ UNCHANGED <<conversations, messages, msgSeq, now, calls>>

\* Handler.GetAllMsgsByID: the conversation id is bound from the JSON body, id
\* NoId standing for a request without one, on which ShouldBindJSON fails with
\* EOF and handleError answers 400; the path parameter is not read.
BoundConversationID(path, body) == body

GetAllMsgsByID(p, paths, bodies, F) ==
    /\ Free(p)
    /\ \E path \in paths, body \in bodies, o \in F :
         LET id == BoundConversationID(path, body)
         IN IF id = NoId
            THEN Set(p, [Answer(p, "getAllMsgs", id, "", 400, "bad request") EXCEPT
                           !.path = path])
            ELSE IF o = "err"
            THEN Set(p, [Answer(p, "getAllMsgs", id, "", 500, "could not query messages")
                           EXCEPT !.path = path])
            ELSE \E rows \in OrderByTimestamp(MsgsOf(id)) :
                   Set(p, [Answer(p, "getAllMsgs", id, "", 200, "") EXCEPT
                             !.path = path, !.list = rows])
    /\ UNCHANGED <<conversations, messages, msgSeq, now, calls>>

\* ---------------------------------------------------------------- rename
\* The same UPDATE without its user_id condition.
EditTargetsAnyOwner(id, user) == {c \in conversations : c.id = id}

\* UPDATE conversations ... WHERE id = $2 AND user_id = $3
EditTargets(id, user) == {c \in conversations : c.id = id /\ c.user_id = user}

\* SET conversation_name = $1 on the rows of the WHERE clause.
Renamed(rows, name) ==
    (conversations \ rows) \cup {[c EXCEPT !.conversation_name = name] : c \in rows}

\* The error doEditChat returns, "nil" when the row was renamed; an empty
\* name or an empty id, NoId here, is refused before the query.
EditChatErr(o, id, user, name) ==
    IF name = "" \/ id = NoId THEN "new_name and conversation_id are required"
    ELSE IF o = "err" THEN "storage"
    ELSE IF EditTargets(id, user) = {}
    THEN "conversation not found or user not authorized"
    ELSE "nil"

\* Handler.doEditChat.  The UPDATE waits for a row that an open transaction
\* has deleted.
doEditChat(p, ids, users, names, F) ==
    /\ Free(p)
    /\ \E id \in ids, u \in users, n \in names, o \in F :
         LET err == EditChatErr(o, id, u, n)
         IN /\ ConvIdsOf(EditTargets(id, u)) \cap LockedConvs(p) = {}
            /\ conversations' = IF err = "nil" THEN Renamed(EditTargets(id, u), n)
                                ELSE conversations
            /\ Set(p, [NewRequest(p, "edit", id, "", u) EXCEPT
                         !.pc = "done", !.newName = n, !.msg = err,
                         !.ret = IF err = "nil" THEN "ok" ELSE "error",
                         !.response = IF err = "nil"
                                      THEN [NoResponse EXCEPT
                                              !.Success = TRUE,
                                              !.ConversationID = id,
                                              !.ConversationName = n]
                                      ELSE NoResponse])
    /\ UNCHANGED <<messages, msgSeq, now, calls>>

\* ------------------------------------------------------- specifications
SendStep(p, F, U, lags) ==
    \/ GetMostRecent(p, F)
    \/ EnsureSelect(p, F)
    \/ EnsureInsert(p, F)
    \/ GetOldMessages(p, F)
    \/ SetUserMessage(p, F)
    \/ CallCompletion(p, U, lags)
    \/ SetReplyMessage(p, F)
    \/ CallSummarize(p, U, lags)
    \/ InsertNameSelect(p, F)
    \/ InsertNameWrite(p, F)

DeleteStep(p, F, T) ==
    \/ Begin(p, F)
    \/ DelMessages(p, T)
    \/ DelConversations(p, T)
    \/ Deferred(p, F)

\* Requests of any kind on concurrent goroutines, racing for one conversation
\* id of one caller; every call of a transaction can fail.
Next ==
    \E p \in Procs :
      \/ StartSend(p, RaceIds \cup {NoId}, {""}, {RaceUser}, MaxMsgs)
      \/ StartDelete(p, RaceIds)
      \/ StartDeleteAll(p, {RaceUser})
      \/ SendStep(p, OkOnly, OkOnly, NoLag)
      \/ DeleteStep(p, DbOutcomes, TxOutcomes)

Spec == Init /\ [][Next]_vars

\* One request at a time, every call able to fail.
SeqProc == "p1"

NextSeq ==
    \/ StartSend(SeqProc, GivenIds \cup {NoId}, {""}, Users, MaxMsgs)
    \/ StartDelete(SeqProc, GivenIds)
    \/ StartDeleteAll(SeqProc, Users)
    \/ SendStep(SeqProc, DbOutcomes, UpstreamOutcomes, NoLag)
    \/ DeleteStep(SeqProc, DbOutcomes, TxOutcomes)

SpecSeq == Init /\ [][NextSeq]_vars

\* One request at a time, every call succeeding, callers of any model and owner.
NextSeqOK ==
    \/ StartSend(SeqProc, GivenIds \cup {NoId}, Models, Users, MaxMsgs)
    \/ StartDelete(SeqProc, GivenIds)
    \/ StartDeleteAll(SeqProc, Users)
    \/ SendStep(SeqProc, OkOnly, OkOnly, NoLag)
    \/ DeleteStep(SeqProc, OkOnly, OkOnly)
    \/ Tick

SpecSeqOK == Init /\ [][NextSeqOK]_vars

\* One send-chat request at a time, every call succeeding: the whole life of
\* a conversation.
NextLife ==
    \/ StartSend(SeqProc, GivenIds \cup {NoId}, {""}, Users, 2 * MaxExchanges)
    \/ SendStep(SeqProc, OkOnly, OkOnly, NoLag)
    \/ Tick

SpecLife == Init /\ [][NextLife]_vars

\* Two clients, one request at a time: a request starts when none is under
\* way, every call succeeding.
AllFree == \A q \in Procs : Free(q)

NextTurns ==
    \E p \in Procs :
      \/ AllFree /\ StartSend(p, RaceIds \cup {NoId}, {""}, Users, MaxMsgs)
      \/ AllFree /\ StartDelete(p, GivenIds)
      \/ AllFree /\ StartDeleteAll(p, Users)
      \/ SendStep(p, OkOnly, OkOnly, NoLag)
      \/ DeleteStep(p, OkOnly, OkOnly)

SpecTurns == Init /\ [][NextTurns]_vars

\* Two callers, one request at a time, reads included.  A caller sends its
\* user-id header and its user_id cookie with every request; the second
\* caller's cookie carries another id than its header.  The server's clock
\* starts at any of ClockStarts and the upstream's is up to one behind.
ClockStarts == {0, 10}

Lags == {0, 1}

Header == [p \in Procs |-> IF p = SeqProc THEN "alice" ELSE "bob"]

Cookie == [p \in Procs |-> "alice"]

InitLate ==
    /\ conversations = {}
    /\ messages = {}
    /\ msgSeq = 0
    /\ now \in ClockStarts
    /\ proc = [p \in Procs |-> IdleProc]
    /\ calls = [c \in ConvIds |-> NoCalls]

NextCallers ==
    \E p \in Procs :
      \/ AllFree /\ StartSend(p, GivenIds \cup {NoId}, {""}, {Header[p]}, MaxMsgs)
      \/ AllFree /\ StartDelete(p, GivenIds)
      \/ AllFree /\ StartDeleteAll(p, {Cookie[p]})
      \/ AllFree /\ GetChatById(p, GivenIds, DbOutcomes)
      \/ AllFree /\ GetAllChat(p, {Header[p]}, DbOutcomes)
      \/ AllFree /\ GetAllMsgsByID(p, RaceIds, GivenIds \cup {NoId}, DbOutcomes)
      \/ SendStep(p, OkOnly, OkOnly, Lags)
      \/ DeleteStep(p, OkOnly, OkOnly)

SpecCallers == InitLate /\ [][NextCallers]_vars

\* One request at a time, every call of a send or a delete succeeding, renames
\* included.
NextEdit ==
    \/ StartSend(SeqProc, GivenIds \cup {NoId}, {""}, Users, MaxMsgs)
    \/ StartDelete(SeqProc, GivenIds)
    \/ doEditChat(SeqProc, GivenIds \cup {NoId}, Users, Names, DbOutcomes)
    \/ SendStep(SeqProc, OkOnly, OkOnly, NoLag)
    \/ DeleteStep(SeqProc, OkOnly, OkOnly)

SpecEdit == Init /\ [][NextEdit]_vars

\* send-chat requests on concurrent goroutines for one conversation, no
\* delete, every call succeeding; room for one exchange more than MaxMsgs.
NextRace ==
    \E p \in Procs :
      \/ StartSend(p, RaceIds \cup {NoId}, {""}, {RaceUser}, MaxMsgs + 2)
      \/ SendStep(p, OkOnly, OkOnly, NoLag)

SpecRace == Init /\ [][NextRace]_vars

\* One send-chat request at a time for one conversation; the completion call
\* can fail in transport, every other call succeeds.
CompletionOutcomes == {"ok", "transportErr"}

NextFlaky ==
    \/ StartSend(SeqProc, RaceIds \cup {NoId}, {""}, {RaceUser}, 2 * MaxExchanges)
    \/ GetMostRecent(SeqProc, OkOnly)
    \/ EnsureSelect(SeqProc, OkOnly)
    \/ EnsureInsert(SeqProc, OkOnly)
    \/ GetOldMessages(SeqProc, OkOnly)
    \/ SetUserMessage(SeqProc, OkOnly)
    \/ CallCompletion(SeqProc, CompletionOutcomes, NoLag)
    \/ SetReplyMessage(SeqProc, OkOnly)
    \/ CallSummarize(SeqProc, OkOnly, NoLag)
    \/ InsertNameSelect(SeqProc, OkOnly)
    \/ InsertNameWrite(SeqProc, OkOnly)

SpecFlaky == Init /\ [][NextFlaky]_vars

\* One send-chat request at a time for one conversation, every call
\* succeeding, the clock moving and the upstream's clock up to one behind.
NextSkew ==
    \/ StartSend(SeqProc, RaceIds \cup {NoId}, {""}, {RaceUser}, MaxMsgs)
    \/ SendStep(SeqProc, OkOnly, OkOnly, Lags)
    \/ Tick

SpecSkew == Init /\ [][NextSkew]_vars

\* ---------------------------------------------------------------- claims
Sends == {p \in Procs : proc[p].op = "send"}

Deletes == {p \in Procs : proc[p].op \in {"delete", "deleteAll"}}

Moved(p) == proc'[p] # proc[p]

RowOf(id) == CHOOSE c \in conversations : c.id = id

\* C1: ensureConversation for an id that is not in the store inserts exactly
\* one row, with the default name and the caller's model and owner, and
\* returns the id; a later call with the same id, whatever its model and
\* owner, returns the id and changes nothing in the store; no two rows of the
\* store ever share an id.
C1_UniqueIds ==
    \A c, d \in conversations : c.id = d.id => c = d

C1_EnsureStep(p) ==
    LET id == proc[p].conversationID
        returned == proc'[p].pc = "getOldMessages"
    IN /\ proc'[p].ret # "error"
       /\ proc'[p].conversationID = id
       /\ messages' = messages
       /\ IF ConvExists(id)
          THEN returned /\ conversations' = conversations
          ELSE IF returned
          THEN /\ conversations' =
                    conversations \cup {ConvRow(id, proc[p].model, DefaultName,
                                                proc[p].userID)}
               /\ Cardinality(conversations') = Cardinality(conversations) + 1
          ELSE proc'[p].pc = "ensureInsert" /\ conversations' = conversations

C1_EnsureConversation ==
    /\ []C1_UniqueIds
    /\ [][\A p \in Procs :
            proc[p].pc \in {"ensureSelect", "ensureInsert"} /\ Moved(p)
              => C1_EnsureStep(p)]_vars

\* A later call has returned the id of a row that another owner created with
\* another model.
C1_Witness ==
    \E p \in Procs :
      /\ proc[p].pc = "getOldMessages"
      /\ ConvExists(proc[p].conversationID)
      /\ RowOf(proc[p].conversationID).user_id \notin {proc[p].userID, Null}
      /\ RowOf(proc[p].conversationID).model \notin {proc[p].model, Null}
      /\ MsgsOf(proc[p].conversationID) # {}

\* C2: a delete by id is atomic for every other request: a step that takes
\* the conversation row or any of its messages out of the store takes the row
\* and all its messages, so the store never shows the row without its messages
\* gone too, or messages gone with the row left.
C2_StepAtomic(c) ==
    LET rowGone == ConvExists(c) /\ ~(\E r \in conversations' : r.id = c)
        msgsGone == MsgsOf(c) \ messages' # {}
    IN rowGone \/ msgsGone =>
         /\ ~(\E r \in conversations' : r.id = c)
         /\ {m \in messages' : m.conversation_id = c} = {}

C2_DeleteAtomic ==
    [][\A c \in ConvIds : C2_StepAtomic(c)]_vars

\* A delete by id has committed the removal of the row and of its messages
\* while another request was under way.
C2_Witness ==
    \E p \in Procs, q \in Procs :
      /\ p # q /\ ~Free(q)
      /\ proc[p].op = "delete" /\ proc[p].pc = "done" /\ proc[p].ret = "ok"
      /\ proc[p].removed.convs = {proc[p].conversationID}
      /\ proc[p].removed.msgs # {}
      /\ ~ConvExists(proc[p].conversationID)
      /\ MsgsOf(proc[p].conversationID) = {}

\* C3: with sequential requests and every upstream call succeeding, the name
\* of a conversation is "New Conversation" up to and including the end of
\* its first request, and is so until the second request, the one with
\* len(oldMsgs) = 3, writes the content of the summarization reply over it.
Summarizing == {"setReplyMessage", "callSummarize", "insertNameSelect", "insertNameWrite"}

C3_AutoNaming ==
    /\ \A c \in conversations :
         calls[c.id].completion <= 1 => c.conversation_name = DefaultName
    /\ \A p \in Sends :
         LET id == proc[p].conversationID
         IN id \in ConvIds /\ ConvExists(id) /\ calls[id].completion = 2 =>
              /\ proc[p].pc \in Summarizing \cup {"done"} => Len(proc[p].oldMsgs) = 3
              /\ proc[p].pc \in Summarizing =>
                   RowOf(id).conversation_name = DefaultName
              /\ proc[p].pc = "done" =>
                   /\ proc[p].ret = "ok"
                   /\ RowOf(id).conversation_name =
                        proc[p].summarizeResponse.Choices[1].Content

\* The second request of a conversation has ended and the name is the summary.
C3_Witness ==
    \E p \in Sends :
      /\ proc[p].pc = "done" /\ proc[p].ret = "ok"
      /\ Len(proc[p].oldMsgs) = 3
      /\ calls[proc[p].conversationID].completion = 2
      /\ RowOf(proc[p].conversationID).conversation_name = SummaryContent

\* C4: over the life of a conversation, with sequential requests and every
\* upstream call succeeding, the summarization call is issued exactly once:
\* by the second request, by none before it and by none after it.
C4_IssuedBySecond ==
    \A c \in ConvIds :
      calls'[c].summarize # calls[c].summarize =>
        /\ calls[c].summarize = 0
        /\ calls'[c].summarize = 1
        /\ calls[c].completion = 2

C4_Issued ==
    \A c \in ConvIds :
      /\ calls[c].summarize <= 1
      /\ calls[c].completion <= 1 => calls[c].summarize = 0
      /\ calls[c].completion >= 3 => calls[c].summarize = 1
      /\ \A p \in Sends :
           /\ proc[p].conversationID = c
           /\ proc[p].pc = "done"
           /\ calls[c].completion = 2
           => calls[c].summarize = 1

C4_SummarizeOnce ==
    /\ []C4_Issued
    /\ [][C4_IssuedBySecond]_vars

\* A conversation has had MaxExchanges requests and one summarization call.
C4_Witness ==
    \E c \in ConvIds :
      /\ calls[c].completion = MaxExchanges
      /\ calls[c].summarize = 1
      /\ Cardinality(MsgsOf(c)) = 2 * MaxExchanges

\* C5: doDeleteChatByID for an id that has no conversation row, and
\* doDeleteAllChatByUserID for an owner who has no conversation, return an
\* error and not the success response.
C5_Returns(p) ==
    /\ proc[p].pc \in {"begin", "delMessages", "delConversations"}
       /\ proc'[p].pc \in {"deferred", "done"}
       /\ ~proc'[p].panicking
       /\ ConvTargets(p) = {}
       => proc'[p].ret = "error"
    /\ proc[p].pc = "deferred" /\ proc'[p].pc = "done" /\ ~proc[p].panicking
       => proc'[p].ret = proc[p].ret

C5_DeleteMissingIsError ==
    [][\A p \in Deletes : C5_Returns(p)]_vars

\* A delete by id and a delete of all of an owner's conversations have both
\* ended with the zero-rows error.
C5_Witness ==
    \E p \in Procs, q \in Procs :
      /\ proc[p].op = "delete" /\ proc[p].pc = "done"
      /\ proc[p].ret = "error" /\ proc[p].msg = "not found"
      /\ proc[q].op = "deleteAll" /\ proc[q].pc = "done"
      /\ proc[q].ret = "error" /\ proc[q].msg = "not found"

\* C6: when a delete by id or a delete of all returns an error, the store is
\* the one before the call: no step of a delete request other than the end
\* of one that returns success changes conversations or messages.
C6_Step(p) ==
    Moved(p) /\ ~(proc'[p].pc = "done" /\ proc'[p].ret = "ok") => store' = store

C6_ErrorLeavesStore ==
    [][\A p \in Deletes : C6_Step(p)]_vars

\* A delete by id whose message delete succeeded and whose conversation
\* delete failed has ended, and the row and its messages are in the store.
C6_Witness ==
    \E p \in Procs :
      /\ proc[p].op = "delete" /\ proc[p].pc = "done"
      /\ proc[p].ret = "error" /\ proc[p].msg = "could not delete conversation"
      /\ proc[p].txEnd = "rollback"
      /\ ConvExists(proc[p].conversationID)
      /\ MsgsOf(proc[p].conversationID) # {}

\* C7: on every path on which a delete returns an error, the zero-rows path
\* included, and on a panic, the transaction is ended by Rollback; Commit is
\* executed only when the delete returns success.
C7_RollbackOnEveryError ==
    \A p \in Deletes :
      proc[p].pc = "done" /\ proc[p].txEnd # "none" =>
        /\ proc[p].ret \in {"error", "panic"} => proc[p].txEnd = "rollback"
        /\ proc[p].txEnd \in {"commit", "commitFailed"} => proc[p].ret = "ok"

\* C8: when two ensureConversation calls for one absent id both pass the
\* existence check before either inserts, the conflict of the second insert
\* is benign: neither call returns an error, and one row has the id.
C8_ConflictBenign ==
    \A p \in Sends :
      proc[p].conflict =>
        /\ proc[p].ret # "error"
        /\ Cardinality({c \in conversations : c.id = proc[p].conversationID}) = 1

\* C9: the steps of a send-chat request come in the order ensure conversation,
\* load history, insert user turn, call upstream, insert reply, each after
\* the one before it succeeded; the upstream call is issued only with the
\* user turn of the request in the store, and an assistant message is
\* inserted only from the parsed reply of the upstream call of the request.
C9_Order ==
    \A p \in Sends :
      /\ Len(proc[p].log) <= Len(SendOrder)
      /\ \A i \in 1..Len(proc[p].log) :
           /\ proc[p].log[i].step = SendOrder[i]
           /\ i < Len(proc[p].log) => proc[p].log[i].ok

UserTurnStored(p) ==
    \E m \in messages :
      /\ m.id \in proc[p].wrote
      /\ m.role = "user"
      /\ m.conversation_id = proc[p].conversationID

C9_Step(p) ==
    /\ calls'[proc[p].conversationID].completion # calls[proc[p].conversationID].completion
       => UserTurnStored(p)
    /\ \A m \in messages' \ messages :
         m.role = "assistant" =>
           /\ UserTurnStored(p)
           /\ proc[p].completionResponse.Choices # <<>>
           /\ m.content = proc[p].completionResponse.Choices[1].Content
           /\ proc[p].log[Len(proc[p].log)] = [step |-> "upstream.completion", ok |-> TRUE]

C9_StepOrder ==
    /\ []C9_Order
    /\ [][\A p \in Sends : Moved(p) /\ proc[p].conversationID \in ConvIds
            => C9_Step(p)]_vars

\* A request has gone through every step, the summarization included.
C9_Witness ==
    \E p \in Sends :
      /\ proc[p].pc = "done" /\ proc[p].ret = "ok"
      /\ Len(proc[p].log) = Len(SendOrder)
      /\ Cardinality(proc[p].wrote) = 2

\* C10: when the completion call of a request fails in transport, in reading
\* the body or in decoding the JSON, the request returns an error and the
\* store holds the conversation row and the user message of the request, and
\* no assistant message of the request.
C10_UpstreamFailure ==
    \A p \in Sends :
      /\ proc[p].pc = "done"
      /\ proc[p].cause \in UpstreamFailures
      /\ proc[p].log[Len(proc[p].log)].step = "upstream.completion"
      => /\ proc[p].ret = "error"
         /\ ConvExists(proc[p].conversationID)
         /\ UserTurnStored(p)
         /\ ~(\E m \in messages : m.id \in proc[p].wrote /\ m.role # "user")
         /\ Cardinality(proc[p].wrote) = 1

\* The completion call of the request that created the conversation failed on
\* the JSON: the row and the user message are all there is of it.
C10_Witness ==
    \E p \in Sends :
      /\ proc[p].pc = "done" /\ proc[p].ret = "error"
      /\ proc[p].cause = "unmarshalErr"
      /\ proc[p].log[Len(proc[p].log)].step = "upstream.completion"
      /\ RowOf(proc[p].conversationID).conversation_name = DefaultName
      /\ \A m \in MsgsOf(proc[p].conversationID) :
           m.role = "user" /\ m.id \in proc[p].wrote

\* C11: a send-chat request without conversation_id takes the highest stored
\* conversation id plus one as its id, 1 on an empty store; with every call
\* succeeding it creates that conversation, stores exactly two messages, the
\* user turn and then the first choice of the reply, and answers success with
\* the id and the reply's role and content.
HighestId ==
    IF conversations = {} THEN 0
    ELSE CHOOSE i \in ConvIdsOf(conversations) :
           \A c \in conversations : c.id <= i

C11_Synthesized(p) ==
    LET id == proc[p].conversationID
        reply == proc[p].completionResponse.Choices[1]
    IN /\ proc[p].ret = "ok"
       /\ proc[p].response =
            [Success |-> TRUE, Content |-> reply.Content, Role |-> reply.Role,
             ConversationID |-> id, ConversationName |-> ""]
       /\ id = HighestId
       /\ RowOf(id) = ConvRow(id, proc[p].model, DefaultName, proc[p].userID)
       /\ Cardinality(MsgsOf(id)) = 2
       /\ \E u, a \in MsgsOf(id) :
            /\ u.id < a.id
            /\ RoleContent(u) = [role |-> "user", content |-> UserContent]
            /\ RoleContent(a) = [role |-> reply.Role, content |-> reply.Content]

C11_NoIdRequest ==
    /\ [](\A p \in Sends :
            proc[p].synthesized /\ proc[p].pc = "done" => C11_Synthesized(p))
    /\ [][\A p \in Sends :
            proc[p].pc = "getMostRecent" /\ Moved(p)
              => proc'[p].conversationID = HighestId + 1]_vars

\* A request without conversation_id has ended on a store that held
\* conversation 1: it made conversation 2.
C11_Witness ==
    \E p \in Sends :
      /\ proc[p].synthesized /\ proc[p].pc = "done" /\ proc[p].ret = "ok"
      /\ proc[p].conversationID = 2
      /\ ConvExists(1)
      /\ Cardinality(MsgsOf(2)) = 2

\* C12: synthesized ids only grow: in a sequential run of requests without
\* conversation_id and deletes, a request that synthesizes its id after
\* another one has ended gets an id greater than that one's, so the id of a
\* deleted conversation is not handed out again.
C12_MonotonicIds ==
    \A p, q \in Sends :
      /\ proc[p].synthesized /\ proc[p].pc = "done"
      /\ proc[q].synthesized /\ proc[q].pc # "done"
      => proc[q].conversationID > proc[p].conversationID

\* C13: two concurrent requests without conversation_id can synthesize the
\* same id; when they do, both go on past ensureConversation against the one
\* row of that id, and the messages both store are under that id.
C13_SharedSynthesizedId ==
    \A p, q \in Sends :
      /\ p # q
      /\ proc[p].synthesized /\ proc[q].synthesized
      /\ proc[p].conversationID = proc[q].conversationID
      => /\ ~(proc[p].pc = "done" /\ proc[p].msg = "Error ensuring conversation:")
         /\ Cardinality({c \in conversations : c.id = proc[p].conversationID}) <= 1
         /\ \A m \in messages :
              m.id \in proc[p].wrote \cup proc[q].wrote
                => m.conversation_id = proc[p].conversationID

\* C14: the history a successful GET /get-all-msgs-by-id answers holds only
\* messages of the conversation asked for, and their timestamps, read as the
\* epoch seconds they are, never decrease along it.
C14_OrderedHistory ==
    \A p \in Procs :
      proc[p].op = "getAllMsgs" /\ proc[p].pc = "done" /\ proc[p].status = 200 =>
        /\ \A i \in DOMAIN proc[p].list :
             proc[p].list[i].conversation_id = proc[p].conversationID
        /\ \A i, j \in DOMAIN proc[p].list :
             i < j => TimestampNumericLeq(proc[p].list[i], proc[p].list[j])

\* C15: a send-chat request whose last step was an upstream call that did not
\* yield a first choice, the wrong-shape answer included, has ended with an
\* error returned to its caller.
C15_UpstreamStep(e) ==
    e.step \in {"upstream.completion", "upstream.summarize"} /\ ~e.ok

C15_WrongShapeFails ==
    \A p \in Sends :
      /\ proc[p].pc = "done"
      /\ proc[p].log # <<>>
      /\ C15_UpstreamStep(proc[p].log[Len(proc[p].log)])
      => proc[p].ret = "error"

\* C16: a send-chat request makes at most one completion call and at most one
\* summarization call; every upstream call made is one call of one request
\* standing at that call; and a call that failed in transport, in reading or in
\* decoding is the last step of its request, which has returned an error.
C16_CallsOf(p, step) ==
    {i \in DOMAIN proc[p].log : proc[p].log[i].step = step}

C16_FailedCalls(p) ==
    {i \in DOMAIN proc[p].log :
       /\ proc[p].log[i].step \in {"upstream.completion", "upstream.summarize"}
       /\ ~proc[p].log[i].ok}

C16_IsCall(p) ==
    /\ proc[p].pc \in {"callCompletion", "callSummarize"}
    /\ Moved(p)
    /\ Len(proc'[p].log) = Len(proc[p].log) + 1
    /\ proc'[p].log[Len(proc'[p].log)].step =
         IF proc[p].pc = "callCompletion" THEN "upstream.completion"
         ELSE "upstream.summarize"
    /\ \E kind \in {"completion", "summarize"} :
         calls' = Called(proc[p].conversationID, kind)

C16_CallMade ==
    \E id \in ConvIds :
      \/ calls'[id].completion > calls[id].completion
      \/ calls'[id].summarize > calls[id].summarize

C17_NotFoundIs404 ==
    \A p \in Procs :
      /\ proc[p].op = "getChat"
      /\ proc[p].pc = "done"
      /\ proc[p].msg = "conversation not found"
      => proc[p].status = 404

\* C18: a get-chat-list request that the store serves is answered 200 with
\* exactly the conversations whose owner is the caller's id, so with none when
\* the caller owns none; an answer that is an error is the failed query's.
C18_Answered(p) ==
    /\ Moved(p)
    /\ proc'[p].op = "getAllChat"
    /\ proc'[p].pc = "done"

C19_HistoryOfPath ==
    \A p \in Procs :
      /\ proc[p].op = "getAllMsgs"
      /\ proc[p].pc = "done"
      /\ proc[p].msg # "could not query messages"
      => /\ proc[p].status = 200
         /\ proc[p].conversationID = proc[p].path

\* C20: a delete-all-chat request that succeeded acted for the owner id that
\* send-chat and get-chat-list use for the same caller, and that caller is
\* left with no conversation.
C20_OneOwnerPerCaller ==
    \A p \in Procs :
      /\ proc[p].op = "deleteAll"
      /\ proc[p].pc = "done"
      /\ proc[p].ret = "ok"
      => /\ proc[p].userID = Header[p]
         /\ ListByOwner(Header[p]) = {}

\* C21: the step that commits a delete-all which returned success takes out of
\* the store exactly the conversations owned by the given user and the
\* messages of those conversations; every row of another owner and every
\* message of such a row stay as they were.
C21_Commits(p) ==
    /\ proc[p].op = "deleteAll"
    /\ proc[p].pc = "deferred"
    /\ proc'[p].pc = "done"
    /\ proc'[p].ret = "ok"
    /\ proc'[p].txEnd = "commit"

C21_Owned(p) == {c \in conversations : c.user_id = proc[p].userID}

C22_Identity(rows) ==
    {[id |-> c.id, model |-> c.model, user_id |-> c.user_id] : c \in rows}

C22_Edited(p) ==
    /\ Moved(p)
    /\ proc'[p].op = "edit"
    /\ proc'[p].pc = "done"

C22_Own(p) ==
    {c \in conversations :
       c.id = proc'[p].conversationID /\ c.user_id = proc'[p].userID}

C22_RenameFrame ==
    [][\A p \in Procs :
         C22_Edited(p) =>
           /\ C22_Own(p) = {} => proc'[p].ret = "error"
           /\ proc'[p].ret = "error" => conversations' = conversations
           /\ proc'[p].ret = "ok" =>
                /\ C22_Own(p) # {}
                /\ conversations' =
                     (conversations \ C22_Own(p)) \cup
                     {[c EXCEPT !.conversation_name = proc'[p].newName] :
                        c \in C22_Own(p)}
           /\ C22_Identity(conversations') = C22_Identity(conversations)
           /\ messages' = messages]_vars

C22_Witness ==
    \E p \in Procs, c \in conversations, d \in conversations :
      /\ proc[p].op = "edit" /\ proc[p].pc = "done" /\ proc[p].ret = "ok"
      /\ c.id = proc[p].conversationID
      /\ c.user_id = proc[p].userID
      /\ c.conversation_name = proc[p].newName
      /\ d.user_id # proc[p].userID
      /\ d.conversation_name # proc[p].newName

\* C23: a delete request that returned its success response has committed its
\* transaction: the rows it reported deleted are out of the store.
C23_SuccessMeansCommitted ==
    \A p \in Deletes :
      proc[p].pc = "done" /\ proc[p].ret = "ok" => proc[p].txEnd = "commit"

\* C24: every conversation row in the store carries a model and an owner, the
\* ones its creating ensureConversation call was given: the auto-naming step
\* never puts back a deleted conversation as a row without them.
C24_RowsHaveModelAndOwner ==
    \A c \in conversations : c.model # Null /\ c.user_id # Null

\* C25: in every state every message row refers to a conversation row that is
\* in the store.
C25_NoOrphanMessage ==
    \A m \in messages : ConvExists(m.conversation_id)

\* A delete took a conversation and its messages out of the store while a
\* send-chat for it was under way, whose next insert the foreign key refused.
C25_Witness ==
    \E p \in Sends, q \in Deletes :
      /\ proc[p].pc = "done" /\ proc[p].cause = "foreign key"
      /\ proc[q].pc = "done" /\ proc[q].txEnd = "commit"
      /\ proc[p].conversationID \in proc[q].removed.convs
      /\ proc[p].wrote \cap proc[q].removed.msgs # {}
      /\ ~ConvExists(proc[p].conversationID)

\* C26: when two send-chat requests for one conversation id have both ended
\* after a completion call that succeeded, the store holds the user turn and
\* the reply of each: four message rows of that conversation, two per request.
C26_Completed(p) ==
    /\ proc[p].pc = "done"
    /\ \E i \in DOMAIN proc[p].log :
         proc[p].log[i].step = "upstream.completion" /\ proc[p].log[i].ok

C26_Stored(p, role) ==
    {m \in messages :
       /\ m.id \in proc[p].wrote
       /\ m.conversation_id = proc[p].conversationID
       /\ m.role = role}

C26_NoMessageLost ==
    \A p, q \in Sends :
      /\ p # q
      /\ proc[p].conversationID = proc[q].conversationID
      /\ C26_Completed(p) /\ C26_Completed(q)
      => /\ \A r \in {p, q} :
              /\ Cardinality(C26_Stored(r, "user")) = 1
              /\ Cardinality(C26_Stored(r, "assistant")) = 1
              /\ Cardinality(proc[r].wrote) = 2
         /\ proc[p].wrote \cap proc[q].wrote = {}

\* Both requests read the history before either stored its user turn.
C26_Witness ==
    \E p, q \in Sends :
      /\ p # q
      /\ proc[p].conversationID = proc[q].conversationID
      /\ C26_Completed(p) /\ C26_Completed(q)
      /\ proc[p].oldMsgs = proc[q].oldMsgs
      /\ Cardinality(MsgsOf(proc[p].conversationID)) >= 4

\* C27: for one conversation, whatever the interleaving of the send-chat
\* requests for it, at most one summarization call is issued.
C27_OneSummary ==
    \A c \in ConvIds : calls[c].summarize <= 1

\* C28: between requests, a conversation that holds two or more assistant
\* replies has a name other than the default one.
C28_Replies(c) == {m \in MsgsOf(c) : m.role = "assistant"}

C28_NamedByTwoReplies ==
    AllFree =>
      \A c \in conversations :
        Cardinality(C28_Replies(c.id)) >= 2 => c.conversation_name # DefaultName

\* C29: the history a send-chat request has just loaded, of a conversation
\* whose stored timestamps all differ, lists the messages as they were
\* inserted: a user turn first, then its reply, exchange after exchange, with
\* the request's own turn at the end.
C29_DistinctTimestamps(c) ==
    \A m, n \in MsgsOf(c) : m # n => m.timestamp # n.timestamp

C29_InsertionOrder(h) ==
    \A i \in DOMAIN h : h[i].role = IF i % 2 = 1 THEN "user" ELSE "assistant"

C29_HistoryInInsertionOrder ==
    \A p \in Sends :
      /\ proc[p].pc = "setUserMessage"
      /\ C29_DistinctTimestamps(proc[p].conversationID)
      => C29_InsertionOrder(proc[p].oldMsgs)

\* C30: every message a send-chat request has stored is in a conversation
\* whose owner is the request's user id.
C30_WritesOnlyToOwn ==
    \A p \in Sends :
      \A m \in messages :
        m.id \in proc[p].wrote /\ ConvExists(m.conversation_id) =>
          RowOf(m.conversation_id).user_id = proc[p].userID

============================================================================
